---------------------------- MODULE Spec2Model ----------------------------
(***************************************************************************)
(* make_book.py: a book published as one HTML page per chapter is turned   *)
(* into one HTML document with locally mirrored resources.                 *)
(*                                                                         *)
(* HTML text is modelled as a stream of tokens, one token per element (or  *)
(* text run, or line of generated markup).  A token is a record            *)
(*   [tag, class, ref, text, attr]                                         *)
(* tag   : the element name ("#text" for a text run, "<body>" ... for a    *)
(*         line of markup written by generate_html),                       *)
(* class : the element's class list,                                       *)
(* ref   : its href/src attribute (NoRef when it has none),                *)
(* text  : its visible text, get_text(strip=True),                         *)
(* attr  : the name attribute of a meta element, the rel attribute of a    *)
(*         link element, "" otherwise.                                     *)
(* BeautifulSoup's find_all over a document is a filter over its tokens.   *)
(*                                                                         *)
(* A page URL is a sequence of segments; a segment of SlashSegments ends   *)
(* with '/'.  A resource reference is [abs, dir, file]: file is the        *)
(* basename of the URL's path ("" when the path ends with '/'), dir the    *)
(* rest of the path below the book's directory.                            *)
(***************************************************************************)
EXTENDS Integers, Sequences, FiniteSets, TLC

VARIABLES
    pc,             \* position of the run: main, write_book and its callees
    argv,           \* sys.argv
    exit_code,      \* status given to sys.exit, -1 while running
    base_url,       \* write_book's normalised base_url
    chapter_urls,   \* get_chapter_urls' result, a dict as a list of <<key, value>>
    book,           \* get_book_content: the prose of the chapters fetched so far
    meta_tags,      \* extract_meta_tags' result, a dict as a list of <<key, value>>
    html_filename,  \* save_html_with_resources' html_filename
    resources_dir,  \* save_html_with_resources' resources_dir
    html_string,    \* save_html_with_resources' html_string, the document as generated
    soup,           \* save_html_with_resources' parsed document, rewritten in place
    worklist,       \* positions in soup of the img, link and script elements to visit
    next_tag,       \* position in worklist of the next element to visit
    files,          \* local files under resources_dir: <<path, url of the content>>
    mirrored,       \* rewritten references: <<url, local path>>, in time order
    fetched,        \* the fetch_webpage calls in time order: [url, ok], ok when it returned
    error,          \* the exception that ended the run, "" when none has
    downloads,      \* resource URLs handed to requests.get, in time order
    failures,       \* positions in worklist whose download or save failed
    html_written,   \* the book's HTML file has been written
    call,           \* a single function applied to drawn arguments: its name and arguments
    rets            \* the values returned by the successive applications

runVars == <<pc, argv, exit_code, base_url, chapter_urls, book, meta_tags,
             html_filename, resources_dir, html_string, soup, worklist, next_tag,
             files, mirrored, fetched, error, downloads, failures, html_written>>
unitVars == <<call, rets>>
vars == <<runVars, unitVars>>

-----------------------------------------------------------------------------
(* Bounds of the model *)

MaxRunAnchors == 2
MaxUls == 2
MaxAnchors == 3
MaxHeadings == 2
MaxFragments == 3
MaxElems == 3
MaxMetas == 2

-----------------------------------------------------------------------------
(* Sequences and Python containers *)

NoAttr == "<none>"

SeqsUpTo(S, n) == UNION {[1..k -> S] : k \in 0..n}

Contains(s, x) == \E i \in DOMAIN s : s[i] = x

\* a dict whose existing keys keep their first value (setdefault)
DictSet_KeepFirst(d, k, v) ==
    IF \E i \in DOMAIN d : d[i][1] = k THEN d ELSE Append(d, <<k, v>>)

\* d[k] = v on a Python dict: a new key is appended, an existing key keeps its place
DictSet(d, k, v) ==
    IF \E i \in DOMAIN d : d[i][1] = k
    THEN [i \in DOMAIN d |-> IF d[i][1] = k THEN <<k, v>> ELSE d[i]]
    ELSE Append(d, <<k, v>>)

DictHas(d, k) == \E i \in DOMAIN d : d[i][1] = k

\* d.get(k, default)
DictGet(d, k, default) ==
    IF DictHas(d, k) THEN d[CHOOSE i \in DOMAIN d : d[i][1] = k][2] ELSE default

-----------------------------------------------------------------------------
(* URLs *)

Prefix == "https://www.projekt-gutenberg.org/"

\* the segments that end with '/'
SlashSegments == {Prefix, "https://example.org/", "buch/"}

\* url.endswith('/')
EndsWithSlash(url) == Len(url) > 0 /\ url[Len(url)] \in SlashSegments

\* url.rfind('/') + 1, counted in segments: 0 when no segment holds a '/'
RFindSlash(url) ==
    IF \E i \in DOMAIN url : url[i] \in SlashSegments
    THEN CHOOSE i \in DOMAIN url :
            /\ url[i] \in SlashSegments
            /\ \A j \in DOMAIN url : url[j] \in SlashSegments => j <= i
    ELSE 0

\* if not url.endswith('/'): url = url[:url.rfind('/') + 1]
NormalizeBase(url) ==
    IF EndsWithSlash(url) THEN url ELSE SubSeq(url, 1, RFindSlash(url))

\* base_url.startswith("https://www.projekt-gutenberg.org/")
StartsWithPrefix(url) == Len(url) > 0 /\ url[1] = Prefix

Ref(abs, dir, file) == [abs |-> abs, dir |-> dir, file |-> file]

\* the href or src of an element that has none
NoRef == Ref(FALSE, NoAttr, NoAttr)

\* urljoin(base, ref): an absolute reference is kept, a relative one is
\* resolved below the base and is absolute exactly when the base is
urljoin(base_abs, ref) ==
    IF ref.abs THEN ref ELSE Ref(base_abs, ref.dir, ref.file)

\* os.path.basename(urlparse(full_url).path)
Basename(full_url) == full_url.file

-----------------------------------------------------------------------------
(* Tokens *)

El(tag, class, ref, text, attr) ==
    [tag |-> tag, class |-> class, ref |-> ref, text |-> text, attr |-> attr]

NL == El("#text", <<>>, NoRef, "\n", "")

Markup(line) == El(line, <<>>, NoRef, "", "")

HasClass(e, c) == Contains(e.class, c)

-----------------------------------------------------------------------------
(* Pages.  A fetched index (landing) page is [uls, metas, links]: its <ul>  *)
(* elements in document order, each with its <a> descendants as             *)
(* [href, text]; its <meta> elements as [name, property, content]; its      *)
(* <link> elements as [rel, href].  A fetched chapter page is a token       *)
(* stream.                                                                  *)

\* a Python value that counts as true: the attribute is there and not empty
Truthy(x) == x \notin {NoAttr, ""}

RECURSIVE PositionsFrom(_, _)
\* the positions i >= from at which flags[i] holds, in increasing order
PositionsFrom(flags, from) ==
    IF from > Len(flags) THEN <<>>
    ELSE (IF flags[from] THEN <<from>> ELSE <<>>) \o PositionsFrom(flags, from + 1)

\* soup.find_all(...) as the positions of the matching tokens
Positions(flags) == PositionsFrom(flags, 1)

Pick(s, idx) == [k \in DOMAIN idx |-> s[idx[k]]]

RECURSIVE LinksFrom(_, _, _)
\* the loop of extract_links_and_text from anchor i on, links_dict being acc
LinksFrom(anchor_tags, i, acc) ==
    IF i > Len(anchor_tags) THEN acc
    ELSE LinksFrom(anchor_tags, i + 1,
                   IF anchor_tags[i].href # NoAttr
                   THEN DictSet(acc, anchor_tags[i].href, anchor_tags[i].text)
                   ELSE acc)

extract_links_and_text(anchor_tags) == LinksFrom(anchor_tags, 1, <<>>)

\* get_chapter_urls that takes a page without <ul> for a book without chapters
get_chapter_urls_EmptyOnNoList(url, index_page) ==
    LET base == NormalizeBase(url)
        sections == index_page.uls
        anchors == IF Len(sections) = 0 THEN <<>> ELSE sections[Len(sections)]
        links == extract_links_and_text(anchors)
    IN  [status |-> "ok",
         links |-> [i \in DOMAIN links |-> <<base \o <<links[i][1]>>, links[i][2]>>]]

\* get_chapter_urls after fetch_webpage has returned index_page.
\* extract_section(index_page, "ul").pop() raises IndexError on an empty list.
get_chapter_urls(url, index_page) ==
    LET base == NormalizeBase(url)
        sections == index_page.uls
    IN  IF Len(sections) = 0
        THEN [status |-> "IndexError", links |-> <<>>]
        ELSE LET anchors == sections[Len(sections)]
                 links == extract_links_and_text(anchors)
             IN  [status |-> "ok",
                  links |-> [i \in DOMAIN links |->
                                <<base \o <<links[i][1]>>, links[i][2]>>]]

\* html_content[target_position + len(str(target_element)):]
remove_leading_to_class(html_content, target_class) ==
    LET hits == Positions([i \in DOMAIN html_content |->
                              HasClass(html_content[i], target_class)])
    IN  IF Len(hits) > 0
        THEN SubSeq(html_content, hits[1] + 1, Len(html_content))
        ELSE html_content

\* html_content[:div_position] for the last <div> of the class
remove_rightmost_div_by_class(html_content, target_class) ==
    LET hits == Positions([i \in DOMAIN html_content |->
                              /\ html_content[i].tag = "div"
                              /\ HasClass(html_content[i], target_class)])
    IN  IF Len(hits) > 0
        THEN SubSeq(html_content, 1, hits[Len(hits)] - 1)
        ELSE html_content

\* div.decompose() for every <div> of the class
remove_divs_by_class(html_content, target_class) ==
    Pick(html_content,
         Positions([i \in DOMAIN html_content |->
                       ~ (/\ html_content[i].tag = "div"
                          /\ HasClass(html_content[i], target_class))]))

\* page[:page.rfind('<hr')]
cut_at_last_hr(page) ==
    LET hits == Positions([i \in DOMAIN page |-> page[i].tag = "hr"])
    IN  IF Len(hits) > 0 THEN SubSeq(page, 1, hits[Len(hits)] - 1) ELSE page

HeadlineTags == {"h1", "h2", "h3", "h4"}

ProtectedClasses == {"title", "author", "subtitle"}

\* a class list to which "chapter" is added instead of replacing it
headline_class_Appends(classes) ==
    IF \A c \in {"title", "author", "subtitle"} : ~ Contains(classes, c)
    THEN Append(classes, "chapter")
    ELSE classes

\* the new class list of one h1-h4 element
headline_class(classes) ==
    IF \A c \in ProtectedClasses : ~ Contains(classes, c)
    THEN <<"chapter">>
    ELSE classes

modify_headline_classes(html_content) ==
    [i \in DOMAIN html_content |->
        IF html_content[i].tag \in HeadlineTags
        THEN [html_content[i] EXCEPT !.class = headline_class(@)]
        ELSE html_content[i]]

\* get_prosa after fetch_webpage has returned page
get_prosa(page) ==
    modify_headline_classes(
        cut_at_last_hr(
            remove_divs_by_class(
                remove_rightmost_div_by_class(
                    remove_leading_to_class(page, "anzeige-chap"),
                    "bottomnavi-gb"),
                "anzeige-print")))

RECURSIVE MetaFrom(_, _, _)
\* the loop of extract_meta_tags from meta i on, meta_tags being acc
MetaFrom(metas, i, acc) ==
    IF i > Len(metas) THEN acc
    ELSE LET key == IF Truthy(metas[i].name) THEN metas[i].name
                    ELSE metas[i].property
             value == metas[i].content
         IN  MetaFrom(metas, i + 1,
                      IF Truthy(key) /\ Truthy(value)
                      THEN DictSet(acc, key, value) ELSE acc)

extract_meta_tags(page) == MetaFrom(page.metas, 1, <<>>)

extract_stylesheet_links(page) ==
    LET hits == Positions([i \in DOMAIN page.links |->
                              /\ page.links[i].rel = "stylesheet"
                              /\ page.links[i].href # NoRef])
    IN  [k \in DOMAIN hits |-> page.links[hits[k]].href]

\* [element.get_text(strip=True) for element in soup.find_all(class_=class_name)]
extract_content_by_class(html_content, class_name) ==
    LET hits == Positions([i \in DOMAIN html_content |->
                              HasClass(html_content[i], class_name)])
    IN  [k \in DOMAIN hits |-> html_content[hits[k]].text]

RECURSIVE JoinFrom(_, _)
\* "\n".join(parts[i:])
JoinFrom(parts, i) ==
    IF i > Len(parts) THEN <<>>
    ELSE IF i = Len(parts) THEN parts[i]
    ELSE parts[i] \o <<NL>> \o JoinFrom(parts, i + 1)

\* "\n".join(parts)
JoinNL(parts) == JoinFrom(parts, 1)

RECURSIVE ConcatFrom(_, _)
ConcatFrom(parts, i) ==
    IF i > Len(parts) THEN <<>> ELSE parts[i] \o ConcatFrom(parts, i + 1)

\* "".join(book): the fragments without a separator
join_book_NoSeparator(book_parts) == ConcatFrom(book_parts, 1)

\* book = "\n".join(book) of get_book_content
join_book(book_parts) == JoinNL(book_parts)

generate_html(metas, main_content, stylesheet_urls, title) ==
    JoinNL(<< <<Markup("<!DOCTYPE html>")>>, <<Markup("<html>")>>, <<Markup("<head>")>>,
              <<El("title", <<>>, NoRef, title, "")>> >>
           \o [i \in DOMAIN metas |->
                  <<El("meta", <<>>, NoRef, metas[i][2], metas[i][1])>>]
           \o [i \in DOMAIN stylesheet_urls |->
                  <<El("link", <<>>, stylesheet_urls[i], "", "stylesheet")>>]
           \o << <<Markup("</head>")>>, <<Markup("<body>")>>, main_content,
                 <<Markup("</body>")>>, <<Markup("</html>")>> >>)

\* every a/link href and img/script src is joined with the base URL
convert_relative_to_absolute(html_content, base) ==
    [i \in DOMAIN html_content |->
        IF /\ html_content[i].tag \in {"a", "img", "link", "script"}
           /\ html_content[i].ref # NoRef
        THEN [html_content[i] EXCEPT !.ref = urljoin(Len(NormalizeBase(base)) > 0, @)]
        ELSE html_content[i]]

\* author / title taken from the last tagged element instead of the first
resolve_name_LastElement(book_content, metas, class_name) ==
    LET found == extract_content_by_class(book_content, class_name)
    IN  IF Len(found) > 0 THEN found[Len(found)]
        ELSE DictGet(metas, class_name, "Unknown")

\* author / title of write_book: the first tagged element of the prose,
\* else the meta tag, else "Unknown"
resolve_name(book_content, metas, class_name) ==
    LET found == extract_content_by_class(book_content, class_name)
    IN  IF Len(found) > 0 THEN found[1] ELSE DictGet(metas, class_name, "Unknown")

\* resources_dir of save_html_with_resources; a file name is a sequence of parts
ResourcesDir(filename) ==
    IF Len(filename) > 0 /\ filename[Len(filename)] = ".html"
    THEN SubSeq(filename, 1, Len(filename) - 1) \o <<"_files">>
    ELSE filename \o <<"_files">>

\* the elements visited when the loop over the script elements is missing
ResourceTags_NoScripts(doc) ==
    Positions([i \in DOMAIN doc |-> doc[i].tag = "img"])
    \o Positions([i \in DOMAIN doc |-> doc[i].tag = "link" /\ doc[i].attr = "stylesheet"])

\* the elements save_html_with_resources visits, in the order it visits them
ResourceTags(doc) ==
    Positions([i \in DOMAIN doc |-> doc[i].tag = "img"])
    \o Positions([i \in DOMAIN doc |-> doc[i].tag = "link" /\ doc[i].attr = "stylesheet"])
    \o Positions([i \in DOMAIN doc |-> doc[i].tag = "script"])

\* local_path = os.path.join(resources_dir, filename)
LocalPath(dir, full_url) == <<dir, Basename(full_url)>>

-----------------------------------------------------------------------------
(* What the run is given: the command line, and what the network returns *)

Program == <<"make_book.py">>
IndexUrl == <<Prefix, "buch/", "index.html">>
BookUrl == <<Prefix, "buch/">>
ForeignUrl == <<"https://example.org/", "buch/", "index.html">>

Argvs == {<<Program>>, <<Program, IndexUrl>>, <<Program, BookUrl>>,
          <<Program, ForeignUrl>>, <<Program, BookUrl, BookUrl>>}

Anchor(href, text) == [href |-> href, text |-> text]
Meta(name, property, content) == [name |-> name, property |-> property, content |-> content]
Link(rel, href) == [rel |-> rel, href |-> href]
Page(uls, metas, links) == [uls |-> uls, metas |-> metas, links |-> links]

RunAnchors == {Anchor("c1.html", "One"), Anchor("c2.html", "Two")}

\* index pages: no list at all, or a navigation list followed by the chapter list
RunIndexPages ==
    {Page(<<>>, <<>>, <<>>)}
    \cup {Page(<< <<Anchor("../index.html", "Home")>>, a >>, <<>>, <<>>) :
            a \in SeqsUpTo(RunAnchors, MaxRunAnchors)}

RunLandingPages ==
    {Page(<<>>, <<>>, <<>>),
     Page(<<>>, <<Meta("author", NoAttr, "Goethe"), Meta("title", NoAttr, "Werke")>>,
          <<Link("stylesheet", Ref(FALSE, "css", "x.png"))>>),
     Page(<<>>, <<>>, <<Link("icon", Ref(FALSE, "css", "fav.ico")),
                        Link("stylesheet", Ref(FALSE, "css", "s.css")),
                        Link("stylesheet", Ref(FALSE, "css", "s.css"))>>)}

RunChapterPages ==
    {<<El("div", <<"navi">>, NoRef, "", ""),
       El("div", <<"anzeige-chap">>, NoRef, "", ""),
       El("h3", <<"title">>, NoRef, "Faust", ""),
       El("img", <<>>, Ref(FALSE, "a", "x.png"), "", ""),
       El("div", <<"bottomnavi-gb">>, NoRef, "", "")>>,
     <<El("h2", <<>>, NoRef, "Nacht", ""),
       El("img", <<>>, Ref(FALSE, "b", "x.png"), "", ""),
       El("script", <<>>, Ref(FALSE, "a", "y.js"), "", ""),
       El("hr", <<>>, NoRef, "", ""),
       El("p", <<>>, NoRef, "Kolophon", "")>>,
     <<El("img", <<>>, Ref(TRUE, "a", "x.png"), "", ""),
       El("img", <<>>, Ref(FALSE, "a", ""), "", ""),
       El("script", <<>>, NoRef, "", "")>>,
     <<El("p", <<>>, NoRef, "Text", "")>>}

-----------------------------------------------------------------------------
(* The run: main, write_book, get_book_content, save_html_with_resources *)

UnitIdle == call = [fn |-> "main"] /\ rets = <<>>

Init ==
    /\ pc = "main"
    /\ argv \in Argvs
    /\ exit_code = -1
    /\ base_url = <<>>
    /\ chapter_urls = <<>>
    /\ book = <<>>
    /\ meta_tags = <<>>
    /\ html_filename = <<>>
    /\ resources_dir = <<>>
    /\ html_string = <<>>
    /\ soup = <<>>
    /\ worklist = <<>>
    /\ next_tag = 1
    /\ files = {}
    /\ mirrored = <<>>
    /\ fetched = <<>>
    /\ error = ""
    /\ downloads = <<>>
    /\ failures = {}
    /\ html_written = FALSE
    /\ UnitIdle

\* fetch_webpage(url) returns the page (ok) or raises URLError
Fetched(url, ok) == fetched' = Append(fetched, [url |-> url, ok |-> ok])

\* an exception nobody catches ends the process with status 1
Raise(exception) ==
    /\ pc' = "crashed"
    /\ error' = exception
    /\ exit_code' = 1

\* main without the check of the URL's prefix
Main_NoPrefixCheck ==
    /\ pc = "main"
    /\ IF Len(argv) # 2
       THEN pc' = "usage_error" /\ exit_code' = 1 /\ UNCHANGED base_url
       ELSE pc' = "get_chapter_urls" /\ base_url' = NormalizeBase(argv[2])
                /\ UNCHANGED exit_code
    /\ UNCHANGED <<argv, chapter_urls, book, meta_tags, html_filename, resources_dir,
                   html_string, soup, worklist, next_tag, files, mirrored, fetched,
                   error, downloads, failures, html_written, unitVars>>

\* main: the two usage checks, then write_book's normalisation of base_url
Main ==
    /\ pc = "main"
    /\ IF Len(argv) # 2
       THEN pc' = "usage_error" /\ exit_code' = 1 /\ UNCHANGED base_url
       ELSE IF ~ StartsWithPrefix(argv[2])
       THEN pc' = "usage_error" /\ exit_code' = 1 /\ UNCHANGED base_url
       ELSE pc' = "get_chapter_urls" /\ base_url' = NormalizeBase(argv[2])
                /\ UNCHANGED exit_code
    /\ UNCHANGED <<argv, chapter_urls, book, meta_tags, html_filename, resources_dir,
                   html_string, soup, worklist, next_tag, files, mirrored, fetched, error,
                   downloads, failures, html_written, unitVars>>

\* get_book_content calls get_chapter_urls: the index page is fetched and parsed
GetChapterUrls ==
    /\ pc = "get_chapter_urls"
    /\ \/ /\ Fetched(NormalizeBase(base_url), FALSE)
          /\ Raise("URLError")
          /\ UNCHANGED chapter_urls
       \/ \E index_page \in RunIndexPages :
            LET r == get_chapter_urls(base_url, index_page)
            IN  /\ Fetched(NormalizeBase(base_url), TRUE)
                /\ IF r.status = "ok"
                   THEN /\ chapter_urls' = r.links
                        /\ pc' = "get_prosa"
                        /\ UNCHANGED <<error, exit_code>>
                   ELSE Raise(r.status) /\ UNCHANGED chapter_urls
    /\ UNCHANGED <<argv, base_url, book, meta_tags, html_filename, resources_dir,
                   html_string, soup, worklist, next_tag, files, mirrored, downloads, failures,
                   html_written, unitVars>>

\* get_prosa whose failed fetch is caught: the chapter is left empty
GetProsa_SkipsFailedChapter ==
    /\ pc = "get_prosa"
    /\ Len(book) < Len(chapter_urls)
    /\ \/ /\ Fetched(chapter_urls[Len(book) + 1][1], FALSE)
          /\ book' = Append(book, <<>>)
       \/ \E page \in RunChapterPages :
            /\ Fetched(chapter_urls[Len(book) + 1][1], TRUE)
            /\ book' = Append(book, get_prosa(page))
    /\ UNCHANGED <<pc, error, exit_code, argv, base_url, chapter_urls, meta_tags,
                   html_filename, resources_dir, html_string, soup, worklist,
                   next_tag, files, mirrored, downloads, failures, html_written,
                   unitVars>>

\* get_book_content calls get_prosa for the next key of chapter_urls
GetProsa ==
    /\ pc = "get_prosa"
    /\ Len(book) < Len(chapter_urls)
    /\ \/ /\ Fetched(chapter_urls[Len(book) + 1][1], FALSE)
          /\ Raise("URLError")
          /\ UNCHANGED book
       \/ \E page \in RunChapterPages :
            /\ Fetched(chapter_urls[Len(book) + 1][1], TRUE)
            /\ book' = Append(book, get_prosa(page))
            /\ UNCHANGED <<pc, error, exit_code>>
    /\ UNCHANGED <<argv, base_url, chapter_urls, meta_tags, html_filename,
                   resources_dir, html_string, soup, worklist, next_tag, files, mirrored,
                   downloads, failures, html_written, unitVars>>

\* write_book: get_book_content has returned; the landing page is fetched for
\* its meta tags
FetchMetaTags ==
    /\ pc = "get_prosa"
    /\ Len(book) = Len(chapter_urls)
    /\ \/ /\ Fetched(base_url, FALSE)
          /\ Raise("URLError")
          /\ UNCHANGED meta_tags
       \/ \E page \in RunLandingPages :
            /\ Fetched(base_url, TRUE)
            /\ meta_tags' = extract_meta_tags(page)
            /\ pc' = "stylesheets"
            /\ UNCHANGED <<error, exit_code>>
    /\ UNCHANGED <<argv, base_url, chapter_urls, book, html_filename, resources_dir,
                   html_string, soup, worklist, next_tag, files, mirrored, downloads, failures,
                   html_written, unitVars>>

\* write_book: author and title are resolved, the landing page is fetched again
\* for its stylesheets, the document is generated and save_html_with_resources
\* parses it and makes its directories
FetchStylesheets ==
    /\ pc = "stylesheets"
    /\ \/ /\ Fetched(base_url, FALSE)
          /\ Raise("URLError")
          /\ UNCHANGED <<html_filename, resources_dir, html_string, soup, worklist>>
       \/ \E page \in RunLandingPages :
            LET book_content == join_book(book)
                author == resolve_name(book_content, meta_tags, "author")
                title == resolve_name(book_content, meta_tags, "title")
                stylesheet_urls == extract_stylesheet_links(page)
                full_page == convert_relative_to_absolute(
                                generate_html(meta_tags, book_content,
                                              stylesheet_urls, title),
                                base_url)
                file_name == <<author, " - ", title, ".html">>
            IN  /\ Fetched(base_url, TRUE)
                /\ html_filename' = file_name
                /\ resources_dir' = ResourcesDir(file_name)
                /\ html_string' = full_page
                /\ soup' = full_page
                /\ worklist' = ResourceTags(full_page)
                /\ pc' = "download"
                /\ UNCHANGED <<error, exit_code>>
    /\ UNCHANGED <<argv, base_url, chapter_urls, book, meta_tags, next_tag, files,
                   mirrored, downloads, failures, html_written, unitVars>>

\* download_and_replace for the next img, link or script element.
\* requests.get and raise_for_status raise a RequestException, which is caught;
\* open and write raise an OSError, which is not.
DownloadAndReplace ==
    /\ pc = "download"
    /\ next_tag <= Len(worklist)
    /\ LET tag == soup[worklist[next_tag]]
           url == tag.ref
           full_url == urljoin(FALSE, url)
           local_path == LocalPath(resources_dir, full_url)
       IN  IF url = NoRef
           THEN /\ next_tag' = next_tag + 1
                /\ UNCHANGED <<pc, error, exit_code, soup, files, mirrored,
                               downloads, failures>>
           ELSE /\ downloads' = Append(downloads, full_url)
                /\ \/ \E exception \in {"HTTPError", "ConnectionError"} :
                        /\ failures' = failures \cup {next_tag}
                        /\ next_tag' = next_tag + 1
                        /\ UNCHANGED <<pc, error, exit_code, soup, files, mirrored>>
                   \/ /\ full_url.abs
                      /\ Raise("OSError")
                      /\ failures' = failures \cup {next_tag}
                      /\ UNCHANGED <<next_tag, soup, files, mirrored>>
                   \/ /\ full_url.abs
                      /\ Basename(full_url) # ""
                      /\ files' = {f \in files : f[1] # local_path}
                                    \cup {<<local_path, full_url>>}
                      /\ soup' = [soup EXCEPT ![worklist[next_tag]].ref =
                                     Ref(FALSE, "_files", Basename(full_url))]
                      /\ mirrored' = Append(mirrored, <<full_url, local_path>>)
                      /\ next_tag' = next_tag + 1
                      /\ UNCHANGED <<pc, error, exit_code, failures>>
    /\ UNCHANGED <<argv, base_url, chapter_urls, book, meta_tags, html_filename,
                   resources_dir, html_string, worklist, fetched, html_written,
                   unitVars>>

\* save_html_with_resources: every element has been visited, the document is written
WriteHtml ==
    /\ pc = "download"
    /\ next_tag > Len(worklist)
    /\ html_written' = TRUE
    /\ pc' = "done"
    /\ exit_code' = 0
    /\ UNCHANGED <<argv, base_url, chapter_urls, book, meta_tags, html_filename,
                   resources_dir, html_string, soup, worklist, next_tag, files, mirrored,
                   fetched, error, downloads, failures, unitVars>>

Next ==
    \/ Main
    \/ GetChapterUrls
    \/ GetProsa
    \/ FetchMetaTags
    \/ FetchStylesheets
    \/ DownloadAndReplace
    \/ WriteHtml

Spec == Init /\ [][Next]_vars

-----------------------------------------------------------------------------
(* Claims about the run *)

Count(s, x) == Cardinality({i \in DOMAIN s : s[i] = x})

\* the command line is a usage error
UsageError == Len(argv) # 2 \/ argv[2][1] # "https://www.projekt-gutenberg.org/"

\* C8: a usage error ends the process with a non-zero status before any network
\* activity: a run given a wrong argument count or a URL without the site's
\* prefix never leaves main, fetches no page and downloads no resource
C8_UsageErrorBeforeNetwork ==
    /\ UsageError => /\ pc \in {"main", "usage_error"}
                     /\ fetched = <<>>
                     /\ downloads = <<>>
                     /\ ~ html_written
    /\ pc = "usage_error" => UsageError /\ exit_code > 0

\* C8 witness: a URL of another site was given and the run has ended
C8_Witness ==
    /\ pc = "usage_error"
    /\ argv = <<Program, ForeignUrl>>
    /\ exit_code = 1

\* the page fetches of a complete run: the index, every chapter, the landing page twice
AllPagesFetched ==
    /\ Len(fetched) = Len(chapter_urls) + 3
    /\ \A i \in DOMAIN fetched : fetched[i].ok
    /\ fetched[1].url = base_url
    /\ \A k \in DOMAIN chapter_urls : fetched[k + 1].url = chapter_urls[k][1]
    /\ fetched[Len(chapter_urls) + 2].url = base_url
    /\ fetched[Len(chapter_urls) + 3].url = base_url

\* C5: a failed page fetch (index, chapter or landing page) ends the run with an
\* error and without output: no HTML file, no resource download, no local file;
\* the document is written and resources are downloaded only after every page
\* fetch of the run has succeeded
C5_FetchFailureWritesNothing ==
    /\ (\E i \in DOMAIN fetched : ~ fetched[i].ok) =>
          /\ pc = "crashed"
          /\ exit_code > 0
          /\ ~ html_written
          /\ downloads = <<>>
          /\ files = {}
    /\ (html_written \/ downloads # <<>> \/ files # {} \/ pc \in {"download", "done"})
          => AllPagesFetched

\* C5 witness: the second chapter's fetch failed after the index and the first
\* chapter had been fetched
C5_Witness ==
    /\ pc = "crashed"
    /\ Len(chapter_urls) = 2
    /\ Len(fetched) = 3
    /\ ~ fetched[3].ok
    /\ Len(book) = 1

\* C2 as claimed: the failure of a resource, whatever its kind, never aborts the
\* run: the later resources are attempted and the document is written
C2_ResourceFailureNeverAborts ==
    failures # {} =>
        /\ pc \in {"download", "done"}
        /\ pc = "done" => html_written /\ next_tag > Len(worklist)

\* C3 as claimed: two distinct resource URLs are never stored under the same
\* local path
C3_DistinctUrlsDistinctFiles ==
    \A i, j \in DOMAIN mirrored :
        mirrored[i][1] # mirrored[j][1] => mirrored[i][2] # mirrored[j][2]

\* C4 as claimed: each distinct resource URL is downloaded at most once
C4_DownloadedAtMostOnce ==
    \A i, j \in DOMAIN downloads : i # j => downloads[i] # downloads[j]

\* the img, stylesheet-link and script elements of the generated document that
\* reference url
ReferencesTo(url) ==
    {i \in DOMAIN html_string :
        /\ \/ html_string[i].tag \in {"img", "script"}
           \/ html_string[i].tag = "link" /\ html_string[i].attr = "stylesheet"
        /\ html_string[i].ref = url}

\* C4 amended: a resource URL is downloaded once per img, stylesheet-link or
\* script element that references it (never more often, and exactly that often
\* when the run completes), and every download of it is stored under one and
\* the same local path, so it yields at most one local entry
C4_OncePerReferenceOneEntry ==
    /\ \A i \in DOMAIN downloads :
          /\ Count(downloads, downloads[i]) <= Cardinality(ReferencesTo(downloads[i]))
          /\ pc = "done" =>
                Count(downloads, downloads[i]) = Cardinality(ReferencesTo(downloads[i]))
    /\ pc = "done" =>
          \A i \in DOMAIN html_string :
              i \in ReferencesTo(html_string[i].ref) /\ html_string[i].ref # NoRef
                 => Contains(downloads, html_string[i].ref)
    /\ \A i, j \in DOMAIN mirrored :
          mirrored[i][1] = mirrored[j][1] => mirrored[i][2] = mirrored[j][2]
    /\ \A f, g \in files : f[2] = g[2] => f = g

\* C4 witness: the run has completed and one URL was downloaded twice into one file
C4_Witness ==
    /\ pc = "done"
    /\ \E i, j \in DOMAIN mirrored : i # j /\ mirrored[i] = mirrored[j]

-----------------------------------------------------------------------------
(* Single functions applied to drawn arguments.  The variables of the run   *)
(* stay as they are before main starts.                                      *)

RunIdle ==
    /\ pc = "idle"
    /\ argv = <<>>
    /\ exit_code = -1
    /\ base_url = <<>>
    /\ chapter_urls = <<>>
    /\ book = <<>>
    /\ meta_tags = <<>>
    /\ html_filename = <<>>
    /\ resources_dir = <<>>
    /\ html_string = <<>>
    /\ soup = <<>>
    /\ worklist = <<>>
    /\ next_tag = 1
    /\ files = {}
    /\ mirrored = <<>>
    /\ fetched = <<>>
    /\ error = ""
    /\ downloads = <<>>
    /\ failures = {}
    /\ html_written = FALSE

(* get_chapter_urls *)

IndexAnchors == {Anchor(h, t) : h \in {"c1.html", "c2.html", NoAttr}, t \in {"One", "Two"}}

NavLists == {<<>>, <<Anchor("../index.html", "Home")>>}

\* no <ul> at all, or navigation lists followed by the list of chapters
IndexUls ==
    {<<>>} \cup {nav \o <<last>> : nav \in SeqsUpTo(NavLists, MaxUls - 1),
                                    last \in SeqsUpTo(IndexAnchors, MaxAnchors)}

InitIndex ==
    /\ RunIdle
    /\ call \in {[fn |-> "get_chapter_urls", url |-> u, page |-> Page(uls, <<>>, <<>>)] :
                    u \in {IndexUrl, BookUrl}, uls \in IndexUls}
    /\ rets = <<>>

CallGetChapterUrls ==
    /\ call.fn = "get_chapter_urls"
    /\ rets = <<>>
    /\ rets' = <<get_chapter_urls(call.url, call.page)>>
    /\ UNCHANGED <<call, runVars>>

NextIndex == CallGetChapterUrls

SpecIndex == InitIndex /\ [][NextIndex]_vars

(* modify_headline_classes *)

HeadlineClassLists ==
    {<<>>, <<"title">>, <<"x">>, <<"x", "subtitle">>, <<"author", "x">>,
     <<"chapter">>, <<"chapter", "x">>}

HeadlineTokens ==
    {El(t, c, NoRef, "", "") : t \in {"h1", "h2", "h4", "h5", "p"},
                              c \in HeadlineClassLists}

InitHeadlines ==
    /\ RunIdle
    /\ call \in {[fn |-> "modify_headline_classes", html_content |-> h] :
                    h \in SeqsUpTo(HeadlineTokens, MaxHeadings)}
    /\ rets = <<>>

CallModifyHeadlineClasses ==
    /\ call.fn = "modify_headline_classes"
    /\ rets = <<>>
    /\ rets' = <<modify_headline_classes(call.html_content)>>
    /\ UNCHANGED <<call, runVars>>

\* the function applied to its own output
RecallModifyHeadlineClasses ==
    /\ call.fn = "modify_headline_classes"
    /\ Len(rets) = 1
    /\ rets' = Append(rets, modify_headline_classes(rets[1]))
    /\ UNCHANGED <<call, runVars>>

NextHeadlines == CallModifyHeadlineClasses \/ RecallModifyHeadlineClasses

SpecHeadlines == InitHeadlines /\ [][NextHeadlines]_vars

(* get_book_content's join and generate_html *)

Fragments ==
    {<<>>,
     <<El("p", <<>>, NoRef, "Text", "")>>,
     <<NL>>,
     <<El("h1", <<"chapter">>, NoRef, "Nacht", ""), El("p", <<>>, NoRef, "Text", "")>>,
     <<El("p", <<>>, NoRef, "Eins", ""), NL, El("p", <<>>, NoRef, "Zwei", "")>>}

InitAssemble ==
    /\ RunIdle
    /\ call \in {[fn |-> "generate_html", book |-> b, meta_tags |-> m,
                  stylesheet_urls |-> u, title |-> "Faust"] :
                    b \in SeqsUpTo(Fragments, MaxFragments),
                    m \in {<<>>, << <<"author", "Goethe">> >>},
                    u \in {<<>>, <<Ref(FALSE, "css", "s.css")>>}}
    /\ rets = <<>>

CallJoinBook ==
    /\ call.fn = "generate_html"
    /\ rets = <<>>
    /\ rets' = <<join_book(call.book)>>
    /\ UNCHANGED <<call, runVars>>

CallGenerateHtml ==
    /\ call.fn = "generate_html"
    /\ Len(rets) = 1
    /\ rets' = Append(rets, generate_html(call.meta_tags, rets[1],
                                          call.stylesheet_urls, call.title))
    /\ UNCHANGED <<call, runVars>>

NextAssemble == CallJoinBook \/ CallGenerateHtml

SpecAssemble == InitAssemble /\ [][NextAssemble]_vars

(* extract_meta_tags and write_book's author and title *)

NameTokens ==
    {El("h1", <<"title">>, NoRef, "Faust", ""),
     El("p", <<"x", "title">>, NoRef, "", ""),
     El("span", <<"author">>, NoRef, "Goethe", ""),
     El("h2", <<"subtitle">>, NoRef, "Erster Teil", ""),
     NL}

NameMetas ==
    {Meta("title", NoAttr, "Werke"), Meta("author", "title", "Schiller"),
     Meta(NoAttr, "title", "Seite"), Meta("title", NoAttr, "")}

InitNames ==
    /\ RunIdle
    /\ call \in {[fn |-> "write_book", book_content |-> b, page |-> Page(<<>>, m, <<>>)] :
                    b \in SeqsUpTo(NameTokens, MaxElems),
                    m \in SeqsUpTo(NameMetas, MaxMetas)}
    /\ rets = <<>>

CallExtractMetaTags ==
    /\ call.fn = "write_book"
    /\ rets = <<>>
    /\ rets' = <<extract_meta_tags(call.page)>>
    /\ UNCHANGED <<call, runVars>>

CallResolveNames ==
    /\ call.fn = "write_book"
    /\ Len(rets) = 1
    /\ rets' = Append(rets, [author |-> resolve_name(call.book_content, rets[1], "author"),
                             title |-> resolve_name(call.book_content, rets[1], "title")])
    /\ UNCHANGED <<call, runVars>>

NextNames == CallExtractMetaTags \/ CallResolveNames

SpecNames == InitNames /\ [][NextNames]_vars

-----------------------------------------------------------------------------
(* Claims about get_chapter_urls *)

\* the anchors of the last <ul> of the page given to get_chapter_urls
LastUlAnchors == call.page.uls[Len(call.page.uls)]

\* what get_chapter_urls prepends to every href
ChapterBase == <<"https://www.projekt-gutenberg.org/", "buch/">>

\* C1 as claimed: N anchors in the last <ul> give exactly N entries, entry i
\* pairing base URL + href and text of anchor i, whatever the hrefs are
C1_OneEntryPerAnchor ==
    (rets # <<>> /\ Len(call.page.uls) > 0) =>
        /\ rets[1].status = "ok"
        /\ Len(rets[1].links) = Len(LastUlAnchors)
        /\ \A i \in DOMAIN LastUlAnchors :
              rets[1].links[i] =
                 <<ChapterBase \o <<LastUlAnchors[i].href>>, LastUlAnchors[i].text>>

FirstAnchorWith(h) ==
    CHOOSE i \in DOMAIN LastUlAnchors :
        /\ LastUlAnchors[i].href = h
        /\ \A j \in DOMAIN LastUlAnchors : LastUlAnchors[j].href = h => i <= j

LastAnchorWith(h) ==
    CHOOSE i \in DOMAIN LastUlAnchors :
        /\ LastUlAnchors[i].href = h
        /\ \A j \in DOMAIN LastUlAnchors : LastUlAnchors[j].href = h => j <= i

\* C1 amended: get_chapter_urls returns one entry per distinct href among the
\* anchors of the last <ul> that have an href, in the order in which the hrefs
\* first occur, each pairing base URL + href with the text of the last anchor
\* that has this href; so N anchors give exactly N entries in document order
\* when every anchor has an href and the hrefs are pairwise distinct
C1_OneEntryPerDistinctHref ==
    (rets # <<>> /\ Len(call.page.uls) > 0) =>
        LET links == rets[1].links
            hrefs == {LastUlAnchors[i].href : i \in DOMAIN LastUlAnchors} \ {NoAttr}
        IN  /\ rets[1].status = "ok"
            /\ Len(links) = Cardinality(hrefs)
            /\ \A h \in hrefs :
                  LET k == 1 + Cardinality({g \in hrefs :
                                              FirstAnchorWith(g) < FirstAnchorWith(h)})
                  IN  links[k] = <<ChapterBase \o <<h>>, LastUlAnchors[LastAnchorWith(h)].text>>
            /\ Cardinality(hrefs) = Len(LastUlAnchors) =>
                  \A i \in DOMAIN LastUlAnchors :
                      links[i] = <<ChapterBase \o <<LastUlAnchors[i].href>>,
                                   LastUlAnchors[i].text>>

\* C1 witness: three anchors, two of them with the same href and one without,
\* have given a single entry that carries the later text
C1_Witness ==
    /\ rets # <<>>
    /\ call.page.uls = << <<Anchor("../index.html", "Home")>>,
                          <<Anchor("c1.html", "One"), Anchor(NoAttr, "Two"),
                            Anchor("c1.html", "Two")>> >>
    /\ rets[1].links = << <<ChapterBase \o <<"c1.html">>, "Two">> >>

\* C9: get_chapter_urls fails with an error when the index page has no <ul>,
\* and returns an empty sequence without error when the last <ul> has no anchors
C9_NoListFailsEmptyListIsEmpty ==
    rets # <<>> =>
        /\ Len(call.page.uls) = 0 => rets[1].status # "ok"
        /\ (Len(call.page.uls) > 0 /\ Len(LastUlAnchors) = 0) =>
              rets[1].status = "ok" /\ rets[1].links = <<>>

\* C9 witness: get_chapter_urls has failed on a page without any <ul>
C9_Witness ==
    /\ rets # <<>>
    /\ call.page.uls = <<>>
    /\ rets[1].status = "IndexError"

-----------------------------------------------------------------------------
(* Claims about modify_headline_classes *)

IsProtected(classes) ==
    \E i \in DOMAIN classes : classes[i] \in {"title", "subtitle", "author"}

-----------------------------------------------------------------------------
(* Claims about the assembled document *)

RECURSIVE FragmentStart(_, _)
\* the position before fragment k of frags in their concatenation with one
\* separator between neighbours
FragmentStart(frags, k) ==
    IF k = 1 THEN 0 ELSE FragmentStart(frags, k - 1) + Len(frags[k - 1]) + 1

\* body consists of the fragments in order with exactly one newline between
\* two neighbours and nothing else
SplitsInto(body, frags) ==
    /\ Len(body) = IF Len(frags) = 0 THEN 0
                   ELSE FragmentStart(frags, Len(frags)) + Len(frags[Len(frags)])
    /\ \A k \in DOMAIN frags :
          /\ SubSeq(body, FragmentStart(frags, k) + 1,
                    FragmentStart(frags, k) + Len(frags[k])) = frags[k]
          /\ k < Len(frags) =>
                body[FragmentStart(frags, k) + Len(frags[k]) + 1].text = "\n"

\* the content of the body of doc: what stands between the line <body> and the
\* line </body>
BodyContent(doc) ==
    LET open == CHOOSE i \in DOMAIN doc : doc[i].tag = "<body>"
        close == CHOOSE i \in DOMAIN doc :
                    /\ doc[i].tag = "</body>"
                    /\ \A j \in DOMAIN doc : doc[j].tag = "</body>" => j <= i
    IN  SubSeq(doc, open + 2, close - 2)

\* C6: the body of the assembled document is the chapter fragments in their
\* order, joined by exactly one newline between neighbours: cutting the body at
\* these separators gives back the K fragments, none lost, doubled or moved
C6_BodyIsJoinedFragments ==
    /\ Len(rets) >= 1 => SplitsInto(rets[1], call.book)
    /\ Len(rets) = 2 =>
          /\ Cardinality({i \in DOMAIN rets[2] : rets[2][i].tag = "<body>"}) = 1
          /\ SplitsInto(BodyContent(rets[2]), call.book)

\* C6 witness: a document was assembled from three fragments, one of them empty
\* and one holding a newline of its own
C6_Witness ==
    /\ Len(rets) = 2
    /\ Len(call.book) = 3
    /\ call.book[1] = <<El("p", <<>>, NoRef, "Eins", ""), NL, El("p", <<>>, NoRef, "Zwei", "")>>
    /\ call.book[2] = <<>>
    /\ Len(call.book[3]) = 2

-----------------------------------------------------------------------------
(* Claims about author and title *)

\* the <meta> elements of the page that extract_meta_tags files under key
MetasKeyed(key) ==
    {i \in DOMAIN call.page.metas :
        LET m == call.page.metas[i]
        IN  /\ m.content \notin {NoAttr, ""}
            /\ IF m.name \notin {NoAttr, ""} THEN m.name = key ELSE m.property = key}

\* the two-tier fallback for the class and meta name key
ExpectedName(key) ==
    LET tagged == {i \in DOMAIN call.book_content :
                      \E c \in DOMAIN call.book_content[i].class :
                          call.book_content[i].class[c] = key}
    IN  IF tagged # {}
        THEN call.book_content[CHOOSE i \in tagged : \A j \in tagged : i <= j].text
        ELSE IF MetasKeyed(key) # {}
        THEN call.page.metas[CHOOSE i \in MetasKeyed(key) :
                                \A j \in MetasKeyed(key) : j <= i].content
        ELSE "Unknown"

\* C7: title and author are each the text of the first element of the assembled
\* prose carrying the class title (author) if there is one, else the content of
\* the meta tag of that name if there is one, else "Unknown"
C7_TitleAuthorFallback ==
    Len(rets) = 2 =>
        /\ rets[2].title = ExpectedName("title")
        /\ rets[2].author = ExpectedName("author")

\* C7 witness: the prose has two author elements and no title element, the page
\* a meta tag named title: the author is the first element's text, the title
\* the meta tag's content
C7_Witness ==
    /\ Len(rets) = 2
    /\ call.book_content = <<NL, El("span", <<"author">>, NoRef, "Goethe", ""),
                             El("span", <<"author">>, NoRef, "Goethe", "")>>
    /\ call.page.metas = <<Meta("title", NoAttr, "Werke")>>
    /\ rets[2] = [author |-> "Goethe", title |-> "Werke"]

=============================================================================
